---------------------------- MODULE Spec2Model ----------------------------
(***************************************************************************)
(* Civic Pulse: the theme classifier (lib/anthropic.ts), the               *)
(* classification endpoint (app/api/classify/route.ts), the Submission     *)
(* Panel, the Map Container, the Map's marker synchronisation and the      *)
(* Comment Modal's upvote, modelled as state machines.                      *)
(*                                                                         *)
(* Strings whose characters matter (comment text, zip code, theme labels,  *)
(* model replies) are held character by character, so that trim,           *)
(* toLowerCase, length and the zip pattern are computed, not assumed.      *)
(***************************************************************************)
EXTENDS Integers, Sequences, FiniteSets, TLC

\* ------------------------------------------------------------------ bounds
\* longest text (in characters) enumerated exhaustively as an input
MaxLen == 2
\* requests the endpoint serves in one behaviour
MaxRequests == 2
\* rows the comments table can hold
MaxComments == 2
\* times the realtime channel delivers one INSERT event to the client
MaxDeliveries == 2
\* calls of handleSubmit in one behaviour
MaxAttempts == 2
\* calls of handleUpvote in one behaviour
MaxVotes == 2
\* upvotes the other clients give to one comment
MaxUpvotes == 2

\* ------------------------------------------------------- program constants
\* route.ts:34 and the textarea's maxLength
MaxCommentLength == 2000

\* ------------------------------------------------------------------ strings
\* A string is held run-length encoded: the sequence of its maximal runs
\* <<character, length>>.  Every string has exactly one such form, so two
\* strings are equal exactly when their encodings are, and a comment of 2000
\* characters stays small.  All operations below are exact.
RECURSIVE Norm(_)
Norm(runs) ==
  IF Len(runs) <= 1 THEN runs
  ELSE LET rest == Norm(Tail(runs))
       IN  IF Head(runs)[1] = Head(rest)[1]
           THEN <<<<Head(runs)[1], Head(runs)[2] + Head(rest)[2]>>>> \o Tail(rest)
           ELSE <<Head(runs)>> \o rest

\* the string with the given characters
Str(chars) == Norm([i \in 1..Len(chars) |-> <<chars[i], 1>>])

\* ch repeated n times
Rep(ch, n) == IF n = 0 THEN <<>> ELSE <<<<ch, n>>>>

\* a + b
Concat(a, b) == Norm(a \o b)

\* s.length
RECURSIVE StrLen(_)
StrLen(s) == IF s = <<>> THEN 0 ELSE Head(s)[2] + StrLen(Tail(s))

RECURSIVE CharSeqsUpTo(_, _)
CharSeqsUpTo(alphabet, n) ==
  IF n = 0 THEN {<<>>}
  ELSE LET shorter == CharSeqsUpTo(alphabet, n - 1)
       IN  shorter \cup {Append(s, ch) : s \in shorter, ch \in alphabet}

\* every string over the alphabet of at most n characters
SeqsUpTo(alphabet, n) == {Str(chars) : chars \in CharSeqsUpTo(alphabet, n)}

\* String.prototype.trim strips white space and line terminators
WhiteSpace == {" ", "\t", "\n"}

AllWhite(s) == \A i \in 1..Len(s) : s[i][1] \in WhiteSpace

\* the runs from the first to the last one that is not white space
Trim(s) ==
  IF AllWhite(s) THEN <<>>
  ELSE LET n     == Len(s)
           first == CHOOSE i \in 1..n :
                      /\ s[i][1] \notin WhiteSpace
                      /\ \A j \in 1..(i - 1) : s[j][1] \in WhiteSpace
           last  == CHOOSE i \in 1..n :
                      /\ s[i][1] \notin WhiteSpace
                      /\ \A j \in (i + 1)..n : s[j][1] \in WhiteSpace
       IN  SubSeq(s, first, last)

UpperChars == <<"A","B","C","D","E","F","G","H","I","J","K","L","M","N","O","P","Q","R","S","T","U","V","W","X","Y","Z">>
LowerChars == <<"a","b","c","d","e","f","g","h","i","j","k","l","m","n","o","p","q","r","s","t","u","v","w","x","y","z">>

UpperSet == {UpperChars[i] : i \in 1..26}

LowerOf == [ch \in UpperSet |-> LowerChars[CHOOSE i \in 1..26 : UpperChars[i] = ch]]

LowerChar(ch) == IF ch \in UpperSet THEN LowerOf[ch] ELSE ch

\* String.prototype.toLowerCase
toLowerCase(s) == Norm([i \in 1..Len(s) |-> <<LowerChar(s[i][1]), s[i][2]>>])

\* ------------------------------------------------------------ the 8 themes
TransportationSafety == Str(<<"T","r","a","n","s","p","o","r","t","a","t","i","o","n"," ","S","a","f","e","t","y">>)
GreenSpace == Str(<<"G","r","e","e","n"," ","S","p","a","c","e">>)
Housing == Str(<<"H","o","u","s","i","n","g">>)
NoisePollution == Str(<<"N","o","i","s","e"," ","&"," ","P","o","l","l","u","t","i","o","n">>)
PublicSafety == Str(<<"P","u","b","l","i","c"," ","S","a","f","e","t","y">>)
CommunityServices == Str(<<"C","o","m","m","u","n","i","t","y"," ","S","e","r","v","i","c","e","s">>)
Infrastructure == Str(<<"I","n","f","r","a","s","t","r","u","c","t","u","r","e">>)
Other == Str(<<"O","t","h","e","r">>)

VALID_THEMES ==
  << TransportationSafety, GreenSpace, Housing, NoisePollution,
     PublicSafety, CommunityServices, Infrastructure, Other >>

\* a value that is no theme (undefined)
NoTheme == Str(<<"?">>)

\* ------------------------------------------------------ the hosted model
\* A reply is message.content: a list of blocks, each a text block or not.
TextBlock(s) == [type |-> "text", text |-> s]
ToolBlock == [type |-> "tool_use", text |-> <<>>]

ReplySamples ==
  { <<TextBlock(Housing)>>,
    <<TextBlock(Str(<<"h","o","u","s","i","n","g">>))>>,
    <<TextBlock(Str(<<"H","O","U","S","I","N","G">>))>>,
    <<TextBlock(Str(<<" ","H","o","u","s","i","n","g","\n">>))>>,
    <<TextBlock(Str(<<"H","o","u","s">>)), TextBlock(Str(<<"i","n","g">>))>>,
    <<TextBlock(Str(<<"H","o","u","s">>)), ToolBlock, TextBlock(Str(<<"i","n","g","\n">>))>>,
    <<TextBlock(Str(<<"H","o","u","s","i","n","g",".">>))>>,
    <<TextBlock(Str(<<"I"," ","t","h","i","n","k"," ","H","o","u","s","i","n","g">>))>>,
    <<TextBlock(Str(<<"g","r","e","e","n"," ","s","p","a","c","e">>))>>,
    <<TextBlock(Str(<<"g","r","e","e","n"," "," ","s","p","a","c","e">>))>>,
    <<TextBlock(NoisePollution)>>,
    <<TextBlock(Infrastructure), TextBlock(Str(<<" ">>))>>,
    <<TextBlock(Str(<<"o","t","h","e","r">>))>>,
    <<TextBlock(<<>>)>>,
    <<TextBlock(Str(<<" ">>))>>,
    <<ToolBlock>>,
    <<>> }

\* messages.create rejects (transport, auth, rate limit) with an Error
FailureMessages ==
  { "Connection error.", "401 authentication_error: invalid x-api-key" }

NoMessage == ""

ModelReply(content) == [fail |-> FALSE, content |-> content, message |-> NoMessage]
ModelFailure(msg)   == [fail |-> TRUE, content |-> <<>>, message |-> msg]
NoOutcome           == [fail |-> FALSE, content |-> <<>>, message |-> "none"]

ModelOutcomes ==
  {ModelReply(r) : r \in ReplySamples} \cup {ModelFailure(m) : m \in FailureMessages}

\* --------------------------------------------------------- classifyComment
\* message.content.filter(text).map(text).join('')
RECURSIVE JoinText(_)
JoinText(content) ==
  IF content = <<>> THEN <<>>
  ELSE Concat(IF Head(content).type = "text" THEN Head(content).text ELSE <<>>,
              JoinText(Tail(content)))

\* mutant: the joined reply is not trimmed
RawReply_untrimmed(content) == JoinText(content)

RawReply(content) == Trim(JoinText(content))

\* theme.toLowerCase() for each entry of VALID_THEMES
LoweredThemes == [i \in 1..Len(VALID_THEMES) |-> toLowerCase(VALID_THEMES[i])]

\* VALID_THEMES.find(theme => theme.toLowerCase() === raw.toLowerCase()) ?? 'Other'
MatchTheme(raw) ==
  LET lowered == toLowerCase(raw)
      hits    == {i \in 1..Len(VALID_THEMES) : LoweredThemes[i] = lowered}
  IN  IF hits = {} THEN Other
      ELSE VALID_THEMES[CHOOSE i \in hits : \A j \in hits : i <= j]

\* mutant: a failed model call falls back to 'Other'
classifyComment_fallback(outcome) ==
  [threw |-> FALSE, message |-> NoMessage,
   theme |-> IF outcome.fail THEN Other ELSE MatchTheme(RawReply(outcome.content))]

\* classifyComment after messages.create settled with `outcome`
classifyComment(outcome) ==
  IF outcome.fail
  THEN [threw |-> TRUE,  message |-> outcome.message, theme |-> NoTheme]
  ELSE [threw |-> FALSE, message |-> NoMessage,
        theme |-> MatchTheme(RawReply(outcome.content))]

MissingKeyMessage == "ANTHROPIC_API_KEY environment variable is not set."

\* ------------------------------------------------- POST /api/classify
\* The parsed request body.  kind: what req.json() yields ("malformed" when
\* it throws); ctype: typeof body.comment_text ("absent" when not in body).
Body(kind, ctype, text) == [kind |-> kind, ctype |-> ctype, text |-> text]

ApiTexts ==
  SeqsUpTo({" ", "a"}, MaxLen)
    \cup { Rep("a", MaxCommentLength),
           Rep("a", MaxCommentLength + 1),
           Concat(Concat(Rep(" ", 1), Rep("a", MaxCommentLength)), Rep("\n", 1)),
           Concat(Rep(" ", 1), Rep("a", MaxCommentLength + 1)),
           Rep(" ", MaxCommentLength + 1) }

ApiBodies ==
  { Body("malformed", "absent", <<>>), Body("null", "absent", <<>>),
    Body("number", "absent", <<>>),    Body("string", "absent", <<>>),
    Body("array", "absent", <<>>),     Body("object", "absent", <<>>),
    Body("object", "number", <<>>),    Body("object", "null", <<>>) }
    \cup { Body("object", "string", t) : t \in ApiTexts }

InvalidJsonMessage  == "Invalid JSON body."
MissingFieldMessage == "Request body must include a \"comment_text\" string field."
EmptyMessage        == "\"comment_text\" must not be empty."
TooLongMessage      == "\"comment_text\" must be 2000 characters or fewer."
FailedPrefix        == "Classification failed: "

\* NextResponse.json({error}, {status}); the error is prefix + detail
ErrorResponse(status, prefix, detail) ==
  [status |-> status, error |-> <<prefix, detail>>, theme |-> NoTheme]
ThemeResponse(theme) ==
  [status |-> 200, error |-> <<"", "">>, theme |-> theme]
NoResponse == [status |-> 0, error |-> <<"", "">>, theme |-> NoTheme]

HasStringField(body) == body.kind = "object" /\ body.ctype = "string"

\* mutant: the empty check is missing
IsEmptyComment_never(commentText) == FALSE

IsEmptyComment(commentText) == StrLen(commentText) = 0

\* mutant: off by one in the length limit
IsTooLong_offByOne(commentText) == StrLen(commentText) >= MaxCommentLength

IsTooLong(commentText) == StrLen(commentText) > MaxCommentLength

\* route.ts lines 7-39: the response of the first failing check, or
\* NoResponse when the body passes all four
Validate(body) ==
  IF body.kind = "malformed"
  THEN ErrorResponse(400, InvalidJsonMessage, "")
  ELSE IF ~HasStringField(body)
  THEN ErrorResponse(422, MissingFieldMessage, "")
  ELSE LET commentText == Trim(body.text)
       IN  IF IsEmptyComment(commentText)
           THEN ErrorResponse(422, EmptyMessage, "")
           ELSE IF IsTooLong(commentText)
           THEN ErrorResponse(422, TooLongMessage, "")
           ELSE NoResponse

\* route.ts lines 41-61: the response once classifyComment settled
Respond(result) ==
  IF result.threw
  THEN ErrorResponse(502, FailedPrefix, result.message)
  ELSE ThemeResponse(result.theme)

VARIABLES
  apiKey,       \* process.env.ANTHROPIC_API_KEY is set
  client,       \* anthropic.ts _client is initialised
  cur,          \* the request being served: [busy, body, calls]
  last,         \* the last completed exchange: request, response, model calls
  sent,         \* the responses sent so far, oldest first
  serverLog     \* what console.error received, oldest first

apiVars == <<apiKey, client, cur, last, sent, serverLog>>

Idle == [busy |-> FALSE, body |-> Body("null", "absent", <<>>), calls |-> 0]

\* calls: the messages.create calls made for the request; outcome: how the
\* call settled (NoOutcome when none was made)
Exchange(body, res, calls, outcome) ==
  [body |-> body, res |-> res, calls |-> calls, outcome |-> outcome]

NoExchange == Exchange(Body("null", "absent", <<>>), NoResponse, 0, NoOutcome)

\* the server process starts; `keys`: whether the API key may be set
ApiInit(keys) ==
  /\ apiKey \in keys
  /\ client = FALSE
  /\ cur = Idle
  /\ last = NoExchange
  /\ sent = <<>>
  /\ serverLog = <<>>

\* POST up to the first await that leaves the process: validation, then
\* classifyComment's getClient() and the messages.create call
ApiReceive(body) ==
  /\ ~cur.busy
  /\ Len(sent) < MaxRequests
  /\ LET rejected == Validate(body)
         missing  == Respond([threw |-> TRUE, message |-> MissingKeyMessage,
                              theme |-> NoTheme])
     IN  IF rejected # NoResponse
         THEN /\ last' = Exchange(body, rejected, 0, NoOutcome)
              /\ sent' = Append(sent, rejected)
              /\ UNCHANGED <<client, cur, serverLog>>
         ELSE IF ~client /\ ~apiKey
         THEN \* getClient throws inside classifyComment; the route catches it
              /\ last' = Exchange(body, missing, 0, NoOutcome)
              /\ sent' = Append(sent, missing)
              /\ serverLog' = Append(serverLog, MissingKeyMessage)
              /\ UNCHANGED <<client, cur>>
         ELSE /\ client' = TRUE
              /\ cur' = [busy |-> TRUE, body |-> body, calls |-> cur.calls + 1]
              /\ UNCHANGED <<last, sent, serverLog>>
  /\ UNCHANGED apiKey

\* messages.create settles; classifyComment returns or throws; POST answers
ApiModelReturn(outcome) ==
  /\ cur.busy
  /\ LET result == classifyComment(outcome)
     IN  /\ last' = Exchange(cur.body, Respond(result), cur.calls, outcome)
         /\ sent' = Append(sent, Respond(result))
         /\ serverLog' = IF result.threw THEN Append(serverLog, result.message)
                         ELSE serverLog
  /\ cur' = Idle
  /\ UNCHANGED <<apiKey, client>>

\* ===================================================== the browser client
\* One client (one page) is modelled in full; every other client is seen
\* through what it does to the Comment Store (RemoteInsert).

\* pendingLocation === null
NULL == <<>>

Digits == {"0", "1", "2", "3", "4", "5", "6", "7", "8", "9"}

\* mutant: the pattern is not anchored to five characters
ZipMatches_anyLength(zip) == \A i \in 1..Len(zip) : zip[i][1] \in Digits

\* /^\d{5}$/.test(zip)
ZipMatches(zip) == StrLen(zip) = 5 /\ \A i \in 1..Len(zip) : zip[i][1] \in Digits

CommentRequiredMessage == "Please enter a comment before submitting."
ZipInvalidMessage      == "Please enter a valid 5-digit ZIP code."
ClassifyFailedMessage  == "Classification failed. Please try again."
SaveFailedMessage      == "Failed to save your comment. Please try again."
\* the message of the TypeError a failed fetch rejects with
FetchFailedMessage     == "Failed to fetch"

\* what the user can type: the textarea has maxLength 2000, the zip input 5
PanelTexts == {Str(<<" ">>), Str(<<"a">>), Rep("a", MaxCommentLength)}
PanelZips ==
  { Str(<<"1","2","3","4","5">>), Str(<<"a","b","c","d","e">>), Str(<<"1","2","3","4"," ">>) }

\* the replies of the hosted model seen through the panel
PanelOutcomes ==
  { ModelReply(<<TextBlock(Infrastructure)>>), ModelFailure("Connection error.") }

\* useState initial values of the Submission Panel
PanelInit == [commentText |-> <<>>, zipCode |-> <<>>, error |-> "", loading |-> FALSE]

\* the responses POST /api/classify can give to `body`
EndpointResponses(body, outcomes) ==
  LET rejected == Validate(body)
  IN  IF rejected # NoResponse THEN {rejected}
      ELSE {Respond(classifyComment(o)) : o \in outcomes}
             \cup {Respond([threw |-> TRUE, message |-> MissingKeyMessage,
                            theme |-> NoTheme])}

\* how fetch('/api/classify') settles: it rejects, or resolves to a response
FetchOutcomes(trimmedComment, outcomes) ==
  {[threw |-> TRUE, res |-> NoResponse]}
    \cup {[threw |-> FALSE, res |-> r] :
            r \in EndpointResponses(Body("object", "string", trimmedComment), outcomes)}

\* mutant: the response status is not looked at
IsOk_always(res) == TRUE

\* Response.ok
IsOk(res) == res.status \in 200..299

\* mutant: latitude and longitude are taken from the wrong coordinate
Row_swapped(id, text, zip, loc, theme) ==
  [id |-> id, comment_text |-> text, zip_code |-> zip, latitude |-> loc[2],
   longitude |-> loc[1], theme |-> theme, upvotes |-> 0]

\* a row of the comments table
Row(id, text, zip, loc, theme) ==
  [id |-> id, comment_text |-> text, zip_code |-> zip, latitude |-> loc[1],
   longitude |-> loc[2], theme |-> theme, upvotes |-> 0]

\* the row another client's submission inserts
RemoteRows == {[comment_text |-> Str(<<"b">>), zip_code |-> Str(<<"9","4","1","1","0">>),
                location |-> <<40, -74>>, theme |-> Other]}

VARIABLES
  comments,         \* the comments table, in insertion order; id = position
  feed,             \* ids whose INSERT event the realtime channel holds for this client
  delivered,        \* id -> number of times its INSERT event was delivered
  earlyEcho,        \* id -> number of those deliveries made while id was not in locallyAddedIds
  mapRef,           \* Map: mapRef.current is a map
  joined,           \* Map: the realtime channel is subscribed
  loadState,        \* Map: "idle", "pending", "done", "failed" (initial select)
  snapshot,         \* Map: the result of the initial select, once issued
  markers,          \* Map: id -> the markers on the map for it, by creating code path
  locallyAddedIds,  \* Map: locallyAddedIds.current
  pendingMarker,    \* Map: the pending markers on the map, by location; the
                    \* last one is pendingMarkerRef.current
  pendingLocation,  \* MapContainer: pendingLocation
  panel,            \* SubmissionPanel: commentText, zipCode, error, loading
  submits,          \* the number of handleSubmit calls so far
  attempts          \* the handleSubmit calls awaiting classify or insert, oldest first

clientVars == <<comments, feed, delivered, earlyEcho, mapRef, joined, loadState,
                snapshot, markers, locallyAddedIds, pendingMarker,
                pendingLocation, panel, submits, attempts>>

storeVars == <<comments, feed>>

mapVars == <<delivered, earlyEcho, mapRef, joined, loadState, snapshot, markers,
             locallyAddedIds>>

Ids == 1..MaxComments

NoMarkers == [snapshot |-> 0, realtime |-> 0, addMarker |-> 0]

\* one call of handleSubmit that got past validation: the trimmed comment
\* and zip, the location prop, where the call stands ("classify", "insert",
\* "inserted"; it leaves `attempts` when it returns), the network calls it
\* issued, the status of the classify response (0: none), the theme it
\* carried, and the insert's result (id of the new row, or dbError); live:
\* its panel is mounted
Attempt(text, zip, loc) ==
  [live |-> TRUE, comment_text |-> text, zip_code |-> zip, location |-> loc,
   stage |-> "classify", classifyCalls |-> 1, insertCalls |-> 0,
   status |-> 0, theme |-> NoTheme, id |-> 0, dbError |-> FALSE]

\* the page is mounted; `tokens`: whether the Mapbox token may be set, in
\* which case the Map effect has created the map; `table`: the rows the
\* comments table holds by then
ClientInit(tokens, table) ==
  /\ comments = table
  /\ feed = {}
  /\ delivered = [id \in Ids |-> 0]
  /\ earlyEcho = [id \in Ids |-> 0]
  /\ mapRef \in tokens
  /\ joined = FALSE
  /\ loadState = "idle"
  /\ snapshot = [error |-> FALSE, ids |-> {}]
  /\ markers = [id \in Ids |-> NoMarkers]
  /\ locallyAddedIds = {}
  /\ pendingMarker = <<>>
  /\ pendingLocation = NULL
  /\ panel = PanelInit
  /\ submits = 0
  /\ attempts = <<>>

\* the number of markers on the map for comment id
MarkerCount(id) == markers[id].snapshot + markers[id].realtime + markers[id].addMarker

\* ------------------------------------------------------------ Comment Store
\* insert(row): the table gets the row under a fresh id and the realtime
\* channel gets its INSERT event for every subscribed client
StoreAppend(text, zip, loc, theme) ==
  /\ comments' = Append(comments, Row(Len(comments) + 1, text, zip, loc, theme))
  /\ feed' = IF joined THEN feed \cup {Len(comments) + 1} ELSE feed

\* another client's submission reaches the table
RemoteInsert(row) ==
  /\ Len(comments) < MaxComments
  /\ StoreAppend(row.comment_text, row.zip_code, row.location, row.theme)
  /\ UNCHANGED <<pendingMarker, pendingLocation, panel, submits, attempts>>
  /\ UNCHANGED mapVars

\* ---------------------------------------------------------------------- Map
\* map.on('load'): the select is issued and evaluated against the table
MapLoad(failed) ==
  /\ mapRef
  /\ loadState = "idle"
  /\ loadState' = "pending"
  /\ snapshot' = IF failed THEN [error |-> TRUE, ids |-> {}]
                 ELSE [error |-> FALSE, ids |-> 1..Len(comments)]
  /\ UNCHANGED <<delivered, earlyEcho, mapRef, joined, markers, locallyAddedIds>>
  /\ UNCHANGED <<pendingMarker, pendingLocation, panel, submits, attempts>>
  /\ UNCHANGED storeVars

\* the select's result arrives: one marker per row, or only a log entry
LoadResponse ==
  /\ loadState = "pending"
  /\ IF snapshot.error
     THEN /\ loadState' = "failed"
          /\ UNCHANGED markers
     ELSE /\ loadState' = "done"
          /\ markers' = [id \in Ids |->
                           IF id \in snapshot.ids
                           THEN [markers[id] EXCEPT !.snapshot = @ + 1]
                           ELSE markers[id]]
  /\ UNCHANGED <<delivered, earlyEcho, mapRef, joined, snapshot, locallyAddedIds>>
  /\ UNCHANGED <<pendingMarker, pendingLocation, panel, submits, attempts>>
  /\ UNCHANGED storeVars

\* channel.subscribe() took effect at the realtime server
ChannelJoined ==
  /\ mapRef
  /\ ~joined
  /\ joined' = TRUE
  /\ UNCHANGED <<delivered, earlyEcho, mapRef, loadState, snapshot, markers,
                 locallyAddedIds>>
  /\ UNCHANGED <<pendingMarker, pendingLocation, panel, submits, attempts>>
  /\ UNCHANGED storeVars

\* locallyAddedIds.current.has(newComment.id)
IsLocallyAdded(id) == id \in locallyAddedIds

\* the realtime INSERT handler runs for row `id` (delivery is at least once)
RealtimeInsert(id) ==
  /\ id \in feed
  /\ delivered[id] < MaxDeliveries
  /\ delivered' = [delivered EXCEPT ![id] = @ + 1]
  /\ earlyEcho' = IF id \in locallyAddedIds THEN earlyEcho
                  ELSE [earlyEcho EXCEPT ![id] = @ + 1]
  /\ markers' = IF IsLocallyAdded(id) THEN markers
                ELSE [markers EXCEPT ![id].realtime = @ + 1]
  /\ UNCHANGED <<mapRef, joined, loadState, snapshot, locallyAddedIds>>
  /\ UNCHANGED <<pendingMarker, pendingLocation, panel, submits, attempts>>
  /\ UNCHANGED storeVars

\* mutant: the container does not hand the row to the Map
AddMarker_skipped(id) == UNCHANGED <<locallyAddedIds, markers>>

\* Map.addMarker(comment)
AddMarker(id) ==
  IF ~mapRef
  THEN UNCHANGED <<locallyAddedIds, markers>>
  ELSE /\ locallyAddedIds' = locallyAddedIds \cup {id}
       /\ markers' = [markers EXCEPT ![id].addMarker = @ + 1]

\* mutant: the effect does not remove the previous pending marker
PendingMarkerFor_keep(location) ==
  IF location = NULL \/ ~mapRef THEN pendingMarker ELSE Append(pendingMarker, location)

\* the pending-marker effect of Map for a new value of pendingLocation: the
\* marker of pendingMarkerRef is removed, then one is added at the location
PendingMarkerFor(location) ==
  LET removed == IF pendingMarker = <<>> THEN <<>>
                 ELSE SubSeq(pendingMarker, 1, Len(pendingMarker) - 1)
  IN  IF location = NULL \/ ~mapRef THEN removed ELSE Append(removed, location)

\* ------------------------------------------------------------ Map Container
\* every handleSubmit still in flight loses its (unmounted) panel
Unmounted(atts) == [i \in 1..Len(atts) |-> [atts[i] EXCEPT !.live = FALSE]]

\* map click -> handleLocationSelect
MapClick(loc) ==
  /\ mapRef
  /\ pendingLocation' = loc
  /\ pendingMarker' = PendingMarkerFor(loc)
  /\ panel' = IF pendingLocation = NULL THEN PanelInit ELSE panel
  /\ UNCHANGED <<submits, attempts>>
  /\ UNCHANGED mapVars
  /\ UNCHANGED storeVars

\* close button or Escape -> handleClose
ClosePanel ==
  /\ pendingLocation # NULL
  /\ pendingLocation' = NULL
  /\ pendingMarker' = PendingMarkerFor(NULL)
  /\ panel' = PanelInit
  /\ attempts' = Unmounted(attempts)
  /\ UNCHANGED submits
  /\ UNCHANGED mapVars
  /\ UNCHANGED storeVars

\* --------------------------------------------------------- Submission Panel
SetCommentText(value) ==
  /\ pendingLocation # NULL
  /\ panel' = [panel EXCEPT !.commentText = value]
  /\ UNCHANGED <<pendingMarker, pendingLocation, submits, attempts>>
  /\ UNCHANGED mapVars
  /\ UNCHANGED storeVars

SetZipCode(value) ==
  /\ pendingLocation # NULL
  /\ panel' = [panel EXCEPT !.zipCode = value]
  /\ UNCHANGED <<pendingMarker, pendingLocation, submits, attempts>>
  /\ UNCHANGED mapVars
  /\ UNCHANGED storeVars

\* !trimmedComment
IsBlank(trimmedComment) == StrLen(trimmedComment) = 0

\* handleSubmit up to the fetch: the submit button is disabled while loading
Submit ==
  /\ pendingLocation # NULL
  /\ ~panel.loading
  /\ submits < MaxAttempts
  /\ submits' = submits + 1
  /\ LET trimmedComment == Trim(panel.commentText)
         trimmedZip     == Trim(panel.zipCode)
     IN  IF IsBlank(trimmedComment)
         THEN /\ panel' = [panel EXCEPT !.error = CommentRequiredMessage]
              /\ UNCHANGED attempts
         ELSE IF ~ZipMatches(trimmedZip)
         THEN /\ panel' = [panel EXCEPT !.error = ZipInvalidMessage]
              /\ UNCHANGED attempts
         ELSE /\ panel' = [panel EXCEPT !.error = "", !.loading = TRUE]
              /\ attempts' = Append(attempts,
                                    Attempt(trimmedComment, trimmedZip, pendingLocation))
  /\ UNCHANGED <<pendingMarker, pendingLocation>>
  /\ UNCHANGED mapVars
  /\ UNCHANGED storeVars

\* the sequence without its a-th element
Remove(seq, a) == SubSeq(seq, 1, a - 1) \o SubSeq(seq, a + 1, Len(seq))

\* mutant: the form is reset when the message is shown
Abort_reset(a, message) ==
  /\ attempts' = Remove(attempts, a)
  /\ panel' = IF attempts[a].live
              THEN [PanelInit EXCEPT !.error = message]
              ELSE panel
  /\ UNCHANGED <<pendingMarker, pendingLocation, submits>>
  /\ UNCHANGED mapVars
  /\ UNCHANGED storeVars

\* catch + finally of handleSubmit: the message is shown and loading ends
\* when the panel is still mounted; the call has returned
Abort(a, message) ==
  /\ attempts' = Remove(attempts, a)
  /\ panel' = IF attempts[a].live
              THEN [panel EXCEPT !.error = message, !.loading = FALSE]
              ELSE panel
  /\ UNCHANGED <<pendingMarker, pendingLocation, submits>>
  /\ UNCHANGED mapVars
  /\ UNCHANGED storeVars

\* the fetch of handleSubmit settles; on an OK response the insert is issued
ClassifyResponse(a, outcome) ==
  /\ attempts[a].stage = "classify"
  /\ IF outcome.threw
     THEN Abort(a, FetchFailedMessage)
     ELSE IF ~IsOk(outcome.res)
     THEN Abort(a, ClassifyFailedMessage)
     ELSE /\ attempts' = [attempts EXCEPT ![a].stage = "insert",
                                          ![a].status = outcome.res.status,
                                          ![a].theme = outcome.res.theme,
                                          ![a].insertCalls = @ + 1]
          /\ UNCHANGED <<pendingMarker, pendingLocation, panel, submits>>
          /\ UNCHANGED mapVars
          /\ UNCHANGED storeVars

\* the Comment Store executes the insert of attempt a, or refuses it
StoreInsert(a, accepted) ==
  /\ attempts[a].stage = "insert"
  /\ IF accepted
     THEN /\ Len(comments) < MaxComments
          /\ StoreAppend(attempts[a].comment_text, attempts[a].zip_code,
                         attempts[a].location, attempts[a].theme)
          /\ attempts' = [attempts EXCEPT ![a].stage = "inserted",
                                          ![a].id = Len(comments) + 1]
     ELSE /\ attempts' = [attempts EXCEPT ![a].stage = "inserted", ![a].dbError = TRUE]
          /\ UNCHANGED storeVars
  /\ UNCHANGED <<pendingMarker, pendingLocation, panel, submits>>
  /\ UNCHANGED mapVars

\* the insert's response arrives: the save error, or onSubmitSuccess ->
\* handleSubmitSuccess (Map.addMarker, then setPendingLocation(null), which
\* unmounts the panel and removes the pending marker)
InsertResponse(a) ==
  /\ attempts[a].stage = "inserted"
  /\ IF attempts[a].dbError
     THEN Abort(a, SaveFailedMessage)
     ELSE /\ AddMarker(attempts[a].id)
          /\ pendingLocation' = NULL
          /\ pendingMarker' = PendingMarkerFor(NULL)
          /\ panel' = PanelInit
          /\ attempts' = Unmounted(Remove(attempts, a))
          /\ UNCHANGED <<delivered, earlyEcho, mapRef, joined, loadState, snapshot,
                         submits>>
          /\ UNCHANGED storeVars

\* ------------------------------------------------------------ Comment Modal
\* browser tabs showing the page, and the devices they run on; the tabs of
\* one device share its localStorage
Tabs == {"t1", "t2"}
Devices == {"d1", "d2"}
OneDevice == {[t \in Tabs |-> "d1"]}
OneOrTwoDevices == OneDevice \cup {[t \in Tabs |-> IF t = "t1" THEN "d1" ELSE "d2"]}

\* the rows of the table when the tabs of SpecUpvote load the page
VoteTable ==
  << Row(1, Str(<<"a">>), Str(<<"9","4","1","1","0">>), <<37, -122>>, Housing),
     Row(2, Str(<<"b">>), Str(<<"9","4","1","1","0">>), <<40, -74>>, Other) >>

VARIABLES
  deviceOf,       \* tab -> the device it runs on
  localStorage,   \* device -> the ids stored under 'civic-pulse-upvoted'
  seen,           \* tab -> id -> the upvotes of the tab's copy of the comment
  modal,          \* tab -> the mounted CommentModal, or NoModal
  clicks,         \* the number of handleUpvote calls so far
  votes           \* the handleUpvote calls awaiting the update, oldest first

upvoteVars == <<deviceOf, localStorage, seen, modal, clicks, votes>>

submitVars == <<pendingMarker, pendingLocation, panel, submits, attempts>>

NoModal == [id |-> 0, upvoteCount |-> 0, hasVoted |-> FALSE, isUpvoting |-> FALSE]

\* one call of handleUpvote that got past its guard: the tab and comment of
\* its modal, the upvoteCount and nextCount it computed, the persisted set
\* it read (before) and wrote (ids), where the call stands ("update",
\* "updated"; it leaves `votes` when it returns), the update's error, and
\* live: its modal is still mounted
Vote(tab, id, count, before) ==
  [tab |-> tab, id |-> id, upvoteCount |-> count, nextCount |-> count + 1,
   before |-> before, ids |-> before \cup {id}, stage |-> "update",
   error |-> FALSE, live |-> TRUE]

\* the tabs have loaded the page: every tab holds the rows of the table
UpvoteInit(assignments) ==
  /\ deviceOf \in assignments
  /\ localStorage = [d \in Devices |-> {}]
  /\ seen = [t \in Tabs |-> [id \in Ids |-> IF id <= Len(comments)
                                            THEN comments[id].upvotes ELSE 0]]
  /\ modal = [t \in Tabs |-> NoModal]
  /\ clicks = 0
  /\ votes = <<>>

\* getUpvotedIds() in a tab
getUpvotedIds(tab) == localStorage[deviceOf[tab]]

\* persistUpvotedIds(ids) in a tab
persistUpvotedIds(tab, ids) ==
  localStorage' = [localStorage EXCEPT ![deviceOf[tab]] = ids]

\* marker click: the modal is mounted for the tab's copy of the comment
ModalOpen(tab, id) ==
  /\ modal[tab] = NoModal
  /\ id \in 1..Len(comments)
  /\ modal' = [modal EXCEPT ![tab] =
                 [id |-> id, upvoteCount |-> seen[tab][id],
                  hasVoted |-> id \in getUpvotedIds(tab), isUpvoting |-> FALSE]]
  /\ UNCHANGED <<deviceOf, localStorage, seen, clicks, votes>>
  /\ UNCHANGED <<apiVars, clientVars>>

\* every handleUpvote of the tab still in flight loses its (unmounted) modal
ModalGone(vs, tab) ==
  [i \in 1..Len(vs) |-> IF vs[i].tab = tab THEN [vs[i] EXCEPT !.live = FALSE] ELSE vs[i]]

\* close button, backdrop or Escape -> onClose: the modal is unmounted
ModalClose(tab) ==
  /\ modal[tab] # NoModal
  /\ modal' = [modal EXCEPT ![tab] = NoModal]
  /\ votes' = ModalGone(votes, tab)
  /\ UNCHANGED <<deviceOf, localStorage, seen, clicks>>
  /\ UNCHANGED <<apiVars, clientVars>>

\* the guard of handleUpvote: !(hasVoted || isUpvoting)
MayVote(m) == ~(m.hasVoted \/ m.isUpvoting)

\* handleUpvote up to the update: optimistic state, then the persisted set
handleUpvote(tab) ==
  /\ modal[tab] # NoModal
  /\ clicks < MaxVotes
  /\ clicks' = clicks + 1
  /\ IF ~MayVote(modal[tab])
     THEN UNCHANGED <<modal, localStorage, votes>>
     ELSE LET v == Vote(tab, modal[tab].id, modal[tab].upvoteCount, getUpvotedIds(tab))
          IN  /\ modal' = [modal EXCEPT ![tab].upvoteCount = v.nextCount,
                                        ![tab].hasVoted = TRUE,
                                        ![tab].isUpvoting = TRUE]
              /\ persistUpvotedIds(tab, v.ids)
              /\ votes' = Append(votes, v)
  /\ UNCHANGED <<deviceOf, seen>>
  /\ UNCHANGED <<apiVars, clientVars>>

\* mutant: the store adds one to the value it holds
WrittenCount_increment(c, stored) == stored + 1

\* update({ upvotes: nextCount }): the value the row gets, whatever it held
WrittenCount(c, stored) == c.nextCount

\* the Comment Store executes update({upvotes: nextCount}).eq('id', id) of
\* vote v, or fails it
StoreUpdate(v, ok) ==
  /\ votes[v].stage = "update"
  /\ votes' = [votes EXCEPT ![v].stage = "updated", ![v].error = ~ok]
  /\ comments' = IF ok THEN [comments EXCEPT ![votes[v].id].upvotes =
                                              WrittenCount(votes[v], @)]
                 ELSE comments
  /\ UNCHANGED <<deviceOf, localStorage, seen, modal, clicks>>
  /\ UNCHANGED <<feed, mapVars, submitVars>>
  /\ UNCHANGED apiVars

\* a client other than the tabs, holding the row as it is now, upvotes the
\* comment: its update writes its count plus one
RemoteUpvote(id) ==
  /\ id \in 1..Len(comments)
  /\ comments[id].upvotes < MaxUpvotes
  /\ comments' = [comments EXCEPT ![id].upvotes = @ + 1]
  /\ UNCHANGED upvoteVars
  /\ UNCHANGED <<feed, mapVars, submitVars>>
  /\ UNCHANGED apiVars

\* the awaited update of vote v rejects: handleUpvote has no try, so the call
\* ends at the await and nothing after it runs
UpdateThrows(v) ==
  /\ votes[v].stage = "update"
  /\ votes' = Remove(votes, v)
  /\ UNCHANGED <<deviceOf, localStorage, seen, modal, clicks>>
  /\ UNCHANGED <<apiVars, clientVars>>

\* ids.delete(comment.id) on the set read before the update
RollbackIds(v) == v.ids \ {v.id}

\* the update's response arrives: rollback on error, onUpvoteSuccess
\* otherwise, then setIsUpvoting(false); the state setters act only on a
\* mounted modal
UpdateResponse(v) ==
  /\ votes[v].stage = "updated"
  /\ LET c == votes[v]
     IN  IF c.error
         THEN /\ modal' = IF c.live
                          THEN [modal EXCEPT ![c.tab].upvoteCount = c.upvoteCount,
                                             ![c.tab].hasVoted = FALSE,
                                             ![c.tab].isUpvoting = FALSE]
                          ELSE modal
              /\ persistUpvotedIds(c.tab, RollbackIds(c))
              /\ UNCHANGED seen
         ELSE /\ modal' = IF c.live THEN [modal EXCEPT ![c.tab].isUpvoting = FALSE]
                          ELSE modal
              /\ seen' = [seen EXCEPT ![c.tab][c.id] = c.nextCount]
              /\ UNCHANGED localStorage
  /\ votes' = Remove(votes, v)
  /\ UNCHANGED <<deviceOf, clicks>>
  /\ UNCHANGED <<apiVars, clientVars>>

vars == <<apiVars, clientVars, upvoteVars>>

\* ------------------------------------------------------------ specifications
\* the classification endpoint and the classifier, over request bodies and
\* model outcomes
InitApi == ApiInit(BOOLEAN) /\ ClientInit({TRUE}, <<>>) /\ UpvoteInit(OneDevice)

NextApi ==
  /\ \/ \E body \in ApiBodies : ApiReceive(body)
     \/ \E outcome \in ModelOutcomes : ApiModelReturn(outcome)
  /\ UNCHANGED clientVars
  /\ UNCHANGED upvoteVars

SpecApi == InitApi /\ [][NextApi]_vars

\* the click that opens the panel in SpecPanel
PanelLocations == {<<37, -122>>}

\* the Submission Panel and the Map Container of one client, over what the
\* user types and how classify and insert settle
InitPanel == ApiInit({TRUE}) /\ ClientInit(BOOLEAN, <<>>) /\ UpvoteInit(OneDevice)

NextPanel ==
  /\ \/ \E loc \in PanelLocations : MapClick(loc)
     \/ ClosePanel
     \/ \E value \in PanelTexts : SetCommentText(value)
     \/ \E value \in PanelZips : SetZipCode(value)
     \/ Submit
     \/ \E a \in 1..Len(attempts) :
          \E outcome \in FetchOutcomes(attempts[a].comment_text, PanelOutcomes) :
            ClassifyResponse(a, outcome)
     \/ \E a \in 1..Len(attempts) : \E accepted \in BOOLEAN : StoreInsert(a, accepted)
     \/ \E a \in 1..Len(attempts) : InsertResponse(a)
  /\ UNCHANGED apiVars
  /\ UNCHANGED upvoteVars

SpecPanel == InitPanel /\ [][NextPanel]_vars

\* the clicks, comments and zips of SpecPending
PendingLocations == {<<37, -122>>, <<40, -74>>}
PendingTexts == {Str(<<" ", "a">>), Rep("a", MaxCommentLength)}
PendingZips == {Str(<<"1","2","3","4","5">>), Str(<<"1","2","3","4"," ">>)}
PendingOutcomes ==
  { ModelReply(<<TextBlock(Str(<<" ","H","o","u","s","i","n","g","\n">>))>>),
    ModelFailure("Connection error.") }

\* the pending location of the Map Container over clicks at two places, and
\* the rows that the submissions made from them insert
NextPending ==
  /\ \/ \E loc \in PendingLocations : MapClick(loc)
     \/ ClosePanel
     \/ \E value \in PendingTexts : SetCommentText(value)
     \/ \E value \in PendingZips : SetZipCode(value)
     \/ Submit
     \/ \E a \in 1..Len(attempts) :
          \E outcome \in FetchOutcomes(attempts[a].comment_text, PendingOutcomes) :
            ClassifyResponse(a, outcome)
     \/ \E a \in 1..Len(attempts) : \E accepted \in BOOLEAN : StoreInsert(a, accepted)
     \/ \E a \in 1..Len(attempts) : InsertResponse(a)
  /\ UNCHANGED apiVars
  /\ UNCHANGED upvoteVars

SpecPending == InitPanel /\ [][NextPending]_vars

\* the click that opens the panel in SpecMap
MapLocations == {<<37, -122>>}

\* what the user types in SpecMap: one valid comment and zip
MapTexts == {Str(<<"a">>)}
MapZips == {Str(<<"1","2","3","4","5">>)}
MapOutcomes == {ModelReply(<<TextBlock(Housing)>>), ModelFailure("Connection error.")}

\* the Map's markers of one client: initial load, realtime feed, the
\* client's own submissions and those of other clients
InitMap == ApiInit({TRUE}) /\ ClientInit(BOOLEAN, <<>>) /\ UpvoteInit(OneDevice)

NextMap ==
  /\ \/ \E failed \in BOOLEAN : MapLoad(failed)
     \/ LoadResponse
     \/ ChannelJoined
     \/ \E id \in feed : RealtimeInsert(id)
     \/ \E row \in RemoteRows : RemoteInsert(row)
     \/ \E loc \in MapLocations : MapClick(loc)
     \/ ClosePanel
     \/ \E value \in MapTexts : SetCommentText(value)
     \/ \E value \in MapZips : SetZipCode(value)
     \/ Submit
     \/ \E a \in 1..Len(attempts) :
          \E outcome \in FetchOutcomes(attempts[a].comment_text, MapOutcomes) :
            ClassifyResponse(a, outcome)
     \/ \E a \in 1..Len(attempts) : \E accepted \in BOOLEAN : StoreInsert(a, accepted)
     \/ \E a \in 1..Len(attempts) : InsertResponse(a)
  /\ UNCHANGED apiVars
  /\ UNCHANGED upvoteVars

SpecMap == InitMap /\ [][NextMap]_vars

\* the markers of one client for the rows other clients insert: the initial
\* select, the subscription and the realtime feed, each of which settles and
\* delivers whenever it can
NextFeed ==
  /\ \/ \E failed \in BOOLEAN : MapLoad(failed)
     \/ LoadResponse
     \/ ChannelJoined
     \/ \E id \in feed : RealtimeInsert(id)
     \/ \E row \in RemoteRows : RemoteInsert(row)
  /\ UNCHANGED apiVars
  /\ UNCHANGED upvoteVars

FairFeed ==
  /\ WF_vars(LoadResponse /\ UNCHANGED <<apiVars, upvoteVars>>)
  /\ WF_vars(ChannelJoined /\ UNCHANGED <<apiVars, upvoteVars>>)
  /\ \A id \in Ids : WF_vars(RealtimeInsert(id) /\ UNCHANGED <<apiVars, upvoteVars>>)

SpecFeed == InitMap /\ [][NextFeed]_vars /\ FairFeed

\* the Comment Modals of two tabs, on one device or on two, over a table of
\* two comments: opening, voting, closing, and how the updates settle
InitUpvote ==
  /\ ApiInit({TRUE})
  /\ ClientInit({TRUE}, VoteTable)
  /\ UpvoteInit(OneOrTwoDevices)

NextUpvote ==
  \/ \E tab \in Tabs : \E id \in Ids : ModalOpen(tab, id)
  \/ \E tab \in Tabs : ModalClose(tab)
  \/ \E tab \in Tabs : handleUpvote(tab)
  \/ \E v \in 1..Len(votes) : \E ok \in BOOLEAN : StoreUpdate(v, ok)
  \/ \E id \in Ids : RemoteUpvote(id)
  \/ \E v \in 1..Len(votes) : UpdateResponse(v)

SpecUpvote == InitUpvote /\ [][NextUpvote]_vars

\* every update that was issued completes, and its response is handled
FairUpvote ==
  /\ WF_vars(\E v \in 1..Len(votes) :
               UpdateThrows(v) \/ \E ok \in BOOLEAN : StoreUpdate(v, ok))
  /\ WF_vars(\E v \in 1..Len(votes) : UpdateResponse(v))

\* the same, with updates whose promise rejects instead of resolving
NextUpvoteThrows ==
  \/ NextUpvote
  \/ \E v \in 1..Len(votes) : UpdateThrows(v)

SpecUpvoteFair == InitUpvote /\ [][NextUpvoteThrows]_vars /\ FairUpvote

\* ------------------------------------------------------------------ claims
\* the comments this client inserted itself: those Map.addMarker was called
\* for, and those whose insert response is still on its way
OwnIds ==
  locallyAddedIds
    \cup {attempts[a].id : a \in {i \in 1..Len(attempts) : attempts[i].id # 0}}

\* the deliveries of id's INSERT event made after Map.addMarker(id)
LateEchoes(id) == delivered[id] - earlyEcho[id]

\* C1: a comment the client inserted itself, for which Map.addMarker was
\* called and whose INSERT event was delivered afterwards at least once, has
\* exactly one marker on the client's map.
C1_OneMarkerForOwnComment ==
  \A id \in locallyAddedIds : LateEchoes(id) >= 1 => MarkerCount(id) = 1

\* C2: when the realtime handler runs for a comment the client inserted
\* itself, the id is already in locallyAddedIds, so the handler never
\* creates a marker for it.
C2_EchoFindsIdRecorded ==
  \A id \in OwnIds : earlyEcho[id] = 0 /\ markers[id].realtime = 0

\* C21: the map of a client never holds more than one marker for a comment.
C21_AtMostOneMarkerPerComment ==
  \A id \in Ids : MarkerCount(id) <= 1

\* the step in which handleUpvote call v returns
VoteReturns(v) == votes[v].stage = "updated" /\ votes' = Remove(votes, v)

\* C10: when a handleUpvote call that started at local count n returns
\* after a successful update, its modal shows n+1 and hasVoted, and the id
\* is in the device's persisted set; when it returns after a failed
\* update, its modal shows n and not hasVoted, and the persisted set is the
\* one the call read when it started.
C10_UpvoteCommitsOrRollsBack ==
  [][\A v \in 1..Len(votes) :
       VoteReturns(v) =>
         LET c == votes[v]
             m == modal'[c.tab]
             persisted == localStorage'[deviceOf[c.tab]]
         IN  IF c.error
             THEN /\ c.live => (m.upvoteCount = c.upvoteCount /\ ~m.hasVoted)
                  /\ persisted = c.before
             ELSE /\ c.live => (m.upvoteCount = c.upvoteCount + 1 /\ m.hasVoted)
                  /\ c.id \in persisted]_vars

\* a vote for the comment of the tab's modal is in flight on the tab's device
VoteInFlight(tab) ==
  \E v \in 1..Len(votes) :
    votes[v].id = modal[tab].id /\ deviceOf[votes[v].tab] = deviceOf[tab]

\* the comment of the tab's modal is in the persisted set of the tab's device
AlreadyPersisted(tab) == modal[tab].id \in localStorage[deviceOf[tab]]

\* C11: a handleUpvote call for a comment whose id is in the device's
\* persisted set, or for which a vote of the device is in flight, issues no
\* update and leaves the modals, the persisted sets and the table as they are.
C11_RepeatedUpvoteIsNoOp ==
  [][\A tab \in Tabs :
       (handleUpvote(tab) /\ (AlreadyPersisted(tab) \/ VoteInFlight(tab)))
         => (votes' = votes /\ modal' = modal /\ localStorage' = localStorage
             /\ comments' = comments)]_vars

\* C12: the stored upvotes of a comment never decrease, and the count a
\* mounted modal displays decreases only when a failed vote of that tab is
\* rolled back.
C12_UpvotesNeverDecrease ==
  [][/\ \A id \in 1..Len(comments) : comments'[id].upvotes >= comments[id].upvotes
     /\ \A tab \in Tabs :
          (/\ modal[tab] # NoModal
           /\ modal'[tab] # NoModal
           /\ modal'[tab].upvoteCount < modal[tab].upvoteCount)
            => \E v \in 1..Len(votes) :
                 VoteReturns(v) /\ votes[v].tab = tab /\ votes[v].error]_vars

\* two votes for one comment, made from the same displayed count, whose
\* updates the store has both executed
BothSucceeded(v, w) ==
  /\ v # w
  /\ votes[v].id = votes[w].id
  /\ votes[v].upvoteCount = votes[w].upvoteCount
  /\ votes[v].stage = "updated" /\ ~votes[v].error
  /\ votes[w].stage = "updated" /\ ~votes[w].error

\* C13: every update the store executes sets the stored count to the count the
\* voting modal displayed plus one, whatever the row held; so the second of two
\* successful votes made from the same count n leaves the stored count at n + 1.
C13_UpdatesAreLost ==
  [][\A v \in 1..Len(votes) :
       StoreUpdate(v, TRUE)
         => /\ comments'[votes[v].id].upvotes = votes[v].upvoteCount + 1
            /\ \A w \in 1..Len(votes) :
                 (/\ w # v
                  /\ votes[w].id = votes[v].id
                  /\ votes[w].upvoteCount = votes[v].upvoteCount
                  /\ votes[w].stage = "updated" /\ ~votes[w].error
                  /\ comments[votes[v].id].upvotes = votes[w].nextCount)
                   => comments'[votes[v].id].upvotes = comments[votes[v].id].upvotes]_vars

\* two tabs of one device have both had their update of the same comment
\* executed, from the same count n, and the stored count is n + 1
C13_Witness ==
  \E v, w \in 1..Len(votes) :
    /\ BothSucceeded(v, w)
    /\ votes[v].tab # votes[w].tab
    /\ deviceOf[votes[v].tab] = deviceOf[votes[w].tab]
    /\ comments[votes[v].id].upvotes = votes[v].upvoteCount + 1

\* the eight labels
ThemeSet == {VALID_THEMES[i] : i \in 1..Len(VALID_THEMES)}

\* C16: once the initial load of a client has succeeded, every row of the
\* table eventually has a marker on that client's map.
C16_EveryRowGetsAMarker ==
  \A id \in Ids :
    []((id <= Len(comments) /\ loadState = "done") => <>(MarkerCount(id) >= 1))

\* C17: a handleUpvote call that passes the guard has raised the count, set the
\* flag and put the id in the persisted set of its device when its update is
\* issued, the table being untouched; and a modal opened for a comment while a
\* vote of its device for that comment is in flight starts with hasVoted true.
C17_OptimisticBeforeUpdate ==
  [][\A tab \in Tabs :
       /\ (handleUpvote(tab) /\ MayVote(modal[tab]))
            => /\ modal'[tab].upvoteCount = modal[tab].upvoteCount + 1
               /\ modal'[tab].hasVoted
               /\ modal[tab].id \in localStorage'[deviceOf[tab]]
               /\ Len(votes') = Len(votes) + 1
               /\ votes'[Len(votes')].stage = "update"
               /\ comments' = comments
       /\ \A id \in Ids :
            (/\ ModalOpen(tab, id)
             /\ \E v \in 1..Len(votes) :
                  votes[v].id = id /\ deviceOf[votes[v].tab] = deviceOf[tab])
              => modal'[tab].hasVoted]_vars

\* C22: when a handleUpvote call returns after a failed update, every id other
\* than its own that was in the persisted set of its device is still in it.
C22_RollbackRemovesOwnIdOnly ==
  [][\A v \in 1..Len(votes) :
       (VoteReturns(v) /\ votes[v].error)
         => (localStorage[deviceOf[votes[v].tab]] \ {votes[v].id})
              \subseteq localStorage'[deviceOf[votes[v].tab]]]_vars

\* C23 (upvote): a mounted modal that shows isUpvoting eventually shows it
\* false, or is closed.
C23_InFlightStateIsLeft ==
  \A tab \in Tabs :
    (modal[tab] # NoModal /\ modal[tab].isUpvoting)
      ~> (modal[tab] = NoModal \/ ~modal[tab].isUpvoting)

\* the characters of a string, one by one
RECURSIVE Chars(_)
Chars(s) ==
  IF s = <<>> THEN <<>>
  ELSE [k \in 1..Head(s)[2] |-> Head(s)[1]] \o Chars(Tail(s))

\* ^\d{5}$
FiveDigits(zip) ==
  /\ StrLen(zip) = 5
  /\ \A k \in 1..5 : Chars(zip)[k] \in {"0","1","2","3","4","5","6","7","8","9"}

\* a step of handleSubmit, and what the form holds when it is taken
SubmitStep == submits' = submits + 1

CommentIsEmpty == AllWhite(panel.commentText)

CommentIsValid == StrLen(Trim(panel.commentText)) \in 1..2000

ZipIsValid == FiveDigits(Trim(panel.zipCode))

\* the network calls of one handleSubmit call agree with the claim
CallsAsClaimed(a) ==
  /\ a.classifyCalls = 1
  /\ a.stage = "classify" => a.insertCalls = 0
  /\ a.stage # "classify" => (a.insertCalls = 1 /\ a.status \in 200..299)

\* the step in which handleSubmit call a returns
SubmitReturns(a) ==
  attempts' = Remove(attempts, a) \/ attempts' = Unmounted(Remove(attempts, a))

\* C3: a submit with a comment of 1..2000 characters after trimming and a
\* five-digit zip issues exactly one classify call; the insert is issued
\* once when the classify response is OK and never otherwise (a call that
\* returns without an OK classify response has left the table alone); no
\* call of an attempt is issued again.
C3_OneClassifyThenAtMostOneInsert ==
  /\ [](\A a \in 1..Len(attempts) : CallsAsClaimed(attempts[a]))
  /\ [][(SubmitStep /\ CommentIsValid /\ ZipIsValid) =>
          /\ Len(attempts') = Len(attempts) + 1
          /\ attempts'[Len(attempts')].classifyCalls = 1
          /\ attempts'[Len(attempts')].insertCalls = 0
          /\ comments' = comments]_vars
  /\ [][\A a \in 1..Len(attempts) :
          (SubmitReturns(a) /\ attempts[a].stage = "classify") =>
            comments' = comments]_vars

\* a comment of 2000 characters went through one classify and one insert
C3_Witness ==
  \E a \in 1..Len(attempts) :
    /\ attempts[a].stage = "inserted"
    /\ StrLen(attempts[a].comment_text) = 2000
    /\ attempts[a].classifyCalls = 1
    /\ attempts[a].insertCalls = 1
    /\ attempts[a].status = 200
    /\ attempts[a].id >= 1
    /\ attempts[a].id = Len(comments)
    /\ comments[attempts[a].id].comment_text = attempts[a].comment_text

\* the step in which the classify or the insert of handleSubmit call a resolves
Resolves(a) ==
  \/ \E outcome \in FetchOutcomes(attempts[a].comment_text, PanelOutcomes) :
       ClassifyResponse(a, outcome)
  \/ InsertResponse(a)

\* C14: when the panel of a handleSubmit call was closed while the call was in
\* flight, the resolution of its classify or insert adds no marker and leaves
\* the pending location, the pending marker and the panel as they are.
C14_ClosedPanelDiscardsResolution ==
  [][\A a \in 1..Len(attempts) :
       (~attempts[a].live /\ Resolves(a))
         => UNCHANGED <<markers, locallyAddedIds, pendingLocation, pendingMarker,
                        panel>>]_vars

\* what a handleSubmit call holds from the moment submit was pressed
Pressed(a) == <<a.comment_text, a.zip_code, a.location>>

\* the themes an OK classify response can carry for a text
ClassifiedThemes(text) ==
  {r.theme : r \in {e \in EndpointResponses(Body("object", "string", text),
                                            PendingOutcomes) : IsOk(e)}}

\* C15: every row the submission flow inserts has a trimmed comment of 1..2000
\* characters, a zip of five digits, upvotes 0 and one of the eight themes; it
\* carries the comment, the zip and the theme of its handleSubmit call, the
\* theme being one classify returned for that comment, and the location that
\* was pending when submit was pressed.
C15_InsertedRowIsWellFormed ==
  /\ [](\A i \in 1..Len(comments) :
          /\ StrLen(comments[i].comment_text) \in 1..2000
          /\ Trim(comments[i].comment_text) = comments[i].comment_text
          /\ FiveDigits(comments[i].zip_code)
          /\ comments[i].upvotes = 0
          /\ comments[i].theme \in ThemeSet)
  /\ [](\A a \in 1..Len(attempts) :
          attempts[a].stage # "classify"
            => attempts[a].theme \in ClassifiedThemes(attempts[a].comment_text))
  /\ [][{Pressed(attempts'[a]) : a \in 1..Len(attempts')}
          \subseteq {Pressed(attempts[a]) : a \in 1..Len(attempts)}
                      \cup (IF SubmitStep
                            THEN {<<Trim(panel.commentText), Trim(panel.zipCode),
                                    pendingLocation>>}
                            ELSE {})]_vars
  /\ [][\A a \in 1..Len(attempts) :
          StoreInsert(a, TRUE)
            => /\ Len(comments') = Len(comments) + 1
               /\ SubSeq(comments', 1, Len(comments)) = comments
               /\ LET row == comments'[Len(comments')]
                  IN  /\ row.comment_text = attempts[a].comment_text
                      /\ row.zip_code = attempts[a].zip_code
                      /\ row.theme = attempts[a].theme
                      /\ row.latitude = attempts[a].location[1]
                      /\ row.longitude = attempts[a].location[2]
                      /\ row.upvotes = 0]_vars

\* the row of a submit pressed at one location is in the table, with the
\* trimmed comment, while the panel is at the other location
C15_Witness ==
  \E a \in 1..Len(attempts) :
    /\ attempts[a].stage = "inserted"
    /\ attempts[a].live
    /\ attempts[a].id >= 1
    /\ comments[attempts[a].id].comment_text = Str(<<"a">>)
    /\ panel.commentText = Str(<<" ", "a">>)
    /\ comments[attempts[a].id].latitude = 37
    /\ comments[attempts[a].id].longitude = -122
    /\ comments[attempts[a].id].theme = Housing
    /\ pendingLocation = <<40, -74>>

\* C18: the map holds at most one pending marker, and holds one only while
\* pendingLocation is set, at that location.
C18_AtMostOnePendingMarker ==
  /\ Len(pendingMarker) <= 1
  /\ pendingMarker # <<>> =>
       (pendingLocation # NULL /\ pendingMarker[1] = pendingLocation)

\* the panel was moved by a second click while a submit pressed at the first
\* location is in flight: the one pending marker is at the second location
C18_Witness ==
  /\ pendingMarker = << <<40, -74>> >>
  /\ \E a \in 1..Len(attempts) :
       attempts[a].live /\ attempts[a].location = <<37, -122>>

\* the step in which the insert of handleSubmit call a is reported as saved
SubmitSucceeds(a) == InsertResponse(a) /\ ~attempts[a].dbError

\* C19: pendingLocation changes only in a map click, which sets it to the
\* clicked place, and in a close or a submit success, which set it to null; a
\* submit success hands the new row to Map.addMarker and clears
\* pendingLocation; the panel has state, and calls with a mounted panel exist,
\* only while pendingLocation is set.
C19_PendingLocationLifecycle ==
  /\ [][pendingLocation' # pendingLocation =>
          \/ \E loc \in PendingLocations : MapClick(loc) /\ pendingLocation' = loc
          \/ ClosePanel /\ pendingLocation' = NULL
          \/ \E a \in 1..Len(attempts) : SubmitSucceeds(a) /\ pendingLocation' = NULL]_vars
  /\ [][\A a \in 1..Len(attempts) :
          SubmitSucceeds(a)
            => /\ markers'[attempts[a].id].addMarker = markers[attempts[a].id].addMarker + 1
               /\ attempts[a].id \in locallyAddedIds'
               /\ pendingLocation' = NULL
               /\ pendingMarker' = <<>>]_vars
  /\ [](pendingLocation = NULL =>
          (panel = PanelInit /\ \A a \in 1..Len(attempts) : ~attempts[a].live))

\* a submit succeeded: its row has the marker of addMarker, the pending
\* location is cleared and the panel is gone, after a click at each place
C19_Witness ==
  /\ pendingLocation = NULL
  /\ panel = PanelInit
  /\ Len(comments) = 1
  /\ comments[1].latitude = 40
  /\ markers[1].addMarker = 1
  /\ 1 \in locallyAddedIds
  /\ pendingMarker = <<>>
  /\ submits = 1
  /\ attempts = <<>>

\* the step in which handleSubmit call a gets a classify response that is
\* not OK
ClassifyRefused(a) ==
  \E outcome \in FetchOutcomes(attempts[a].comment_text, PanelOutcomes) :
    ~outcome.threw /\ ~IsOk(outcome.res) /\ ClassifyResponse(a, outcome)

\* the step in which handleSubmit call a gets the error of its insert
SaveRefused(a) == InsertResponse(a) /\ attempts[a].dbError

\* the panel after an abort with the message: loading false, fields as typed
Aborted(message) == panel' = [panel EXCEPT !.error = message, !.loading = FALSE]

\* C20: when the classify response of a call with a mounted panel is not OK
\* the call returns without an insert, and when its insert fails the call
\* returns; either way the panel shows loading false, the comment and zip as
\* typed and the classification or the save message, and no marker is added
\* and the pending location stays.
C20_AbortKeepsTheForm ==
  [][\A a \in 1..Len(attempts) :
       attempts[a].live =>
         /\ ClassifyRefused(a)
              => /\ Aborted(ClassifyFailedMessage)
                 /\ attempts[a].insertCalls = 0
                 /\ attempts' = Remove(attempts, a)
                 /\ UNCHANGED <<comments, feed, markers, locallyAddedIds,
                                pendingLocation, pendingMarker>>
         /\ SaveRefused(a)
              => /\ Aborted(SaveFailedMessage)
                 /\ attempts' = Remove(attempts, a)
                 /\ UNCHANGED <<comments, feed, markers, locallyAddedIds,
                                pendingLocation, pendingMarker>>]_vars

\* the insert of a submit failed: the panel shows the save message over the
\* comment and zip as typed, is not loading, and nothing was stored or marked
C20_Witness ==
  /\ panel = [commentText |-> Rep("a", MaxCommentLength),
              zipCode |-> Str(<<"1","2","3","4","5">>),
              error |-> SaveFailedMessage, loading |-> FALSE]
  /\ pendingLocation # NULL
  /\ attempts = <<>>
  /\ comments = <<>>
  /\ \A id \in Ids : MarkerCount(id) = 0

\* C4: a submit with a comment that is empty after trimming, or with a zip
\* that is not five digits, starts no classify and no insert, leaves
\* loading false and shows the comment message when the comment is empty
\* and the zip message otherwise.
C4_InvalidSubmitStaysLocal ==
  [][(SubmitStep /\ (CommentIsEmpty \/ ~ZipIsValid)) =>
       /\ attempts' = attempts
       /\ comments' = comments
       /\ ~panel'.loading
       /\ panel'.error = (IF CommentIsEmpty THEN CommentRequiredMessage
                          ELSE ZipInvalidMessage)]_vars

\* both fields invalid: the comment message is shown, nothing was sent
C4_Witness ==
  /\ submits >= 1
  /\ panel.commentText = Str(<<" ">>)
  /\ panel.zipCode = Str(<<"a","b","c","d","e">>)
  /\ panel.error = CommentRequiredMessage
  /\ ~panel.loading
  /\ attempts = <<>>

\* the same letter, whatever its case
SameLetter(x, y) ==
  x = y \/ \E i \in 1..26 : {x, y} = {UpperChars[i], LowerChars[i]}

\* the character at position k of a string
RECURSIVE CharAt(_, _)
CharAt(s, k) == IF k <= Head(s)[2] THEN Head(s)[1] ELSE CharAt(Tail(s), k - Head(s)[2])

EqIgnoreCase(a, b) ==
  /\ StrLen(a) = StrLen(b)
  /\ \A k \in 1..StrLen(a) : SameLetter(CharAt(a, k), CharAt(b, k))

\* C5: whenever the model returned a reply, the classifier's result is one
\* of the 8 labels: the label that equals the trimmed concatenation of the
\* reply's text segments case-insensitively, and 'Other' when there is none.
C5_ReplyYieldsCanonicalLabel ==
  (last.calls = 1 /\ ~last.outcome.fail) =>
    LET raw == Trim(JoinText(last.outcome.content))
    IN  /\ last.res.theme \in ThemeSet
        /\ Cardinality(ThemeSet) = 8
        /\ \A label \in ThemeSet :
             EqIgnoreCase(label, raw) => last.res.theme = label
        /\ (~\E label \in ThemeSet : EqIgnoreCase(label, raw))
             => last.res.theme = Other

C5_Witness ==
  /\ last.calls = 1
  /\ last.outcome.content =
       <<TextBlock(Str(<<"H","o","u","s">>)), ToolBlock, TextBlock(Str(<<"i","n","g","\n">>))>>
  /\ last.res.theme = Housing

\* C6: a failed model call makes the classifier fail after exactly one
\* model call, and the endpoint answers 502 without a theme, never 200.
C6_ModelFailureIs502 ==
  /\ cur.calls <= 1
  /\ last.outcome.fail =>
       /\ last.calls = 1
       /\ last.res.status = 502
       /\ last.res.theme = NoTheme

C6_Witness ==
  /\ last.outcome.fail
  /\ last.calls = 1
  /\ last.res.status = 502

\* C7: the endpoint answers by the first failing check, in the order
\* malformed JSON (400), no string comment_text (422), empty after trim
\* (422), longer than 2000 after trim (422); a body passing all four whose
\* classification succeeds gets 200 with one of the 8 labels.
C7_ValidationOrder ==
  (last # NoExchange) =>
    LET b == last.body
        r == last.res
    IN  IF b.kind = "malformed"
        THEN r.status = 400 /\ r.error = <<InvalidJsonMessage, "">>
        ELSE IF ~(b.kind = "object" /\ b.ctype = "string")
        THEN r.status = 422 /\ r.error = <<MissingFieldMessage, "">>
        ELSE IF AllWhite(b.text)
        THEN r.status = 422 /\ r.error = <<EmptyMessage, "">>
        ELSE IF StrLen(Trim(b.text)) > 2000
        THEN r.status = 422 /\ r.error = <<TooLongMessage, "">>
        ELSE /\ r.status \in {200, 502}
             /\ (last.calls = 1 /\ ~last.outcome.fail) =>
                  /\ r.status = 200
                  /\ r.theme \in ThemeSet
                  /\ r.error = <<"", "">>

\* a body of 2002 characters that is 2000 characters after trimming passes
C7_Witness ==
  /\ StrLen(last.body.text) = 2002
  /\ StrLen(Trim(last.body.text)) = 2000
  /\ last.res.status = 200
  /\ last.res.theme \in ThemeSet

\* C8: the body of a 502 response does not depend on the cause: any two
\* 502 responses carry the same body.
C8_GenericFailureBody ==
  \A i, j \in 1..Len(sent) :
    (sent[i].status = 502 /\ sent[j].status = 502) => sent[i].error = sent[j].error

\* C9: at most one classifier call per request and none for a request
\* answered 400 or 422; a comment_text that is empty or white space only is
\* answered 422 with the empty-comment message and no model call.
C9_AtMostOneModelCall ==
  /\ cur.calls <= 1
  /\ last.calls <= 1
  /\ last.res.status \in {400, 422} => last.calls = 0
  /\ cur.busy => (HasStringField(cur.body) /\ ~AllWhite(cur.body.text))
  /\ (HasStringField(last.body) /\ AllWhite(last.body.text)) =>
       /\ last.res.status = 422
       /\ last.res.error = <<EmptyMessage, "">>
       /\ last.calls = 0

C9_Witness ==
  /\ last.body = Body("object", "string", Str(<<" ">>))
  /\ last.res.status = 422
  /\ last.res.error = <<EmptyMessage, "">>
  /\ last.calls = 0
  /\ client = FALSE
=============================================================================
